---- MODULE Spec2Model ----
(***************************************************************************)
(* Model of the two variants of the chat console:                          *)
(*   "add"   = src/main_add_chatconsole.py                                 *)
(*   "voice" = src/main_voice_chat_console.py                              *)
(* Strings are sequences of tokens; Python's None is the value None.       *)
(***************************************************************************)
EXTENDS Integers, Sequences, FiniteSets, TLC

VARIABLES
    file,             \* which of the two programs runs
    config,           \* load_config(): the configuration record
    show_settings,    \* st.session_state.show_settings
    messages,         \* st.session_state.messages
    recording,        \* st.session_state.recording ("absent" until first set)
    pc,               \* position in the handler that serves the current user action
    query,            \* the query argument of the running call
    url,              \* request URL of the running call
    payloads_to_try,  \* the variant list of the running call
    i,                \* loop index of the running call (1-based)
    last_error,       \* last_error of the running call
    sent,             \* the requests.post calls to the completion endpoint of this action
    received,         \* what each requests.post came back with
    log,              \* logger records (warning/error) of the running call
    result,           \* return value / raised exception of the client
    tts,              \* outcome of text_to_speech in process_query
    synth,            \* what text_to_speech did with the speech SDK
    audio,            \* record_audio: device handle, stream, chunks, temp file
    transcription     \* transcribe_audio: the recognizer's outcome and the returned string

vars == <<file, config, show_settings, messages, recording, pc,
          query, url, payloads_to_try, i, last_error, sent, received, log,
          result, tts, synth, audio, transcription>>

(***************************************************************************)
(* Bounds of the model.                                                    *)
(***************************************************************************)
\* process_query calls per chat history
MaxQueries == 1

(***************************************************************************)
(* Values.                                                                 *)
(***************************************************************************)
None == <<"None">>

\* Python truthiness of an Optional[str]
Truthy(v) == v # None /\ v # <<>>

Files == {"add", "voice"}

Queries == {<<"q1">>, <<"q2">>}

Contents == {<<"r1">>, <<"r2">>}

SystemPrompt == <<"You are a helpful Loan agent that responds in Thai language">>

DefaultApiVersion == <<"2024-06-01">>

DefaultVoice == <<"th-TH-PremwadaNeural">>

\* nothing written to a wave file yet
NoWav == [nchannels |-> 0, sampwidth |-> 0, framerate |-> 0, nframes |-> 0]

\* before record_audio runs: nothing acquired, nothing read, no file
NoAudio ==
    [ duration |-> 0, p |-> "none", stream |-> "none", chunks |-> 0,
      file |-> "none", path |-> None, wav |-> NoWav ]

\* before transcribe_audio runs
NoTranscription == [outcome |-> "none", recognized |-> << >>, text |-> None]

\* before text_to_speech runs: no synthesizer, nothing sent to the speech service
NoSynth == [synthesizer |-> FALSE, request |-> None]

\* values an environment variable can hold (None: not set)
EndpointValues == {None, <<"host", "/">>, <<"https://", "host", "/">>}

Opt(v) == {None, v}

Env ==
    [ AZURE_OAI_ENDPOINT    : EndpointValues,
      AZURE_OAI_KEY         : Opt(<<"key">>),
      AZURE_OAI_DEPLOYMENT  : Opt(<<"dep">>),
      AZURE_SEARCH_ENDPOINT : Opt(<<"search">>),
      AZURE_SEARCH_KEY      : Opt(<<"skey">>),
      AZURE_SEARCH_INDEX    : Opt(<<"index">>),
      AZURE_API_VERSION     : Opt(<<"2024-02-15-preview">>),
      AZURE_SPEECH_KEY      : Opt(<<"spkey">>),
      AZURE_SPEECH_REGION   : Opt(<<"region">>),
      AZURE_SPEECH_VOICE    : {None} ]

\* os.getenv(name, default)
getenv(v, default) == IF v = None THEN default ELSE v

load_config(f, env) ==
    [ azure_oai_endpoint    |-> env.AZURE_OAI_ENDPOINT,
      azure_oai_key         |-> env.AZURE_OAI_KEY,
      azure_oai_deployment  |-> env.AZURE_OAI_DEPLOYMENT,
      azure_search_endpoint |-> env.AZURE_SEARCH_ENDPOINT,
      azure_search_key      |-> env.AZURE_SEARCH_KEY,
      azure_search_index    |-> env.AZURE_SEARCH_INDEX,
      azure_api_version     |-> IF f = "voice"
                                THEN getenv(env.AZURE_API_VERSION, DefaultApiVersion)
                                ELSE env.AZURE_API_VERSION,
      azure_speech_key      |-> env.AZURE_SPEECH_KEY,
      azure_speech_region   |-> env.AZURE_SPEECH_REGION,
      azure_speech_voice    |-> IF f = "voice"
                                THEN getenv(env.AZURE_SPEECH_VOICE, DefaultVoice)
                                ELSE env.AZURE_SPEECH_VOICE ]

required_params == {"azure_oai_endpoint", "azure_oai_key", "azure_oai_deployment"}

validate_config(c) == \A p \in required_params : Truthy(c[p])

\* all([search_endpoint, search_key, search_index])
AllSearch(se, sk, si) == Truthy(se) /\ Truthy(sk) /\ Truthy(si)

(***************************************************************************)
(* Endpoint normalisation.                                                 *)
(***************************************************************************)
\* str.rstrip('/'): every trailing slash goes, those of a scheme left at the end too
RECURSIVE rstrip(_)
rstrip(s) ==
    IF s = <<>> THEN s
    ELSE LET last == s[Len(s)]
             front == SubSeq(s, 1, Len(s) - 1)
         IN  CASE last = "/"        -> rstrip(front)
               [] last = "https://" -> Append(front, "https:")
               [] last = "http://"  -> Append(front, "http:")
               [] OTHER             -> s

startswith(s, tok) == s # <<>> /\ s[1] = tok

validate_azure_endpoint_format(endpoint) ==
    IF ~Truthy(endpoint) THEN None
    ELSE LET e == rstrip(endpoint)
         IN  IF startswith(e, "https://") THEN e ELSE <<"https://">> \o e

BuildUrl(endpoint, deployment, api_version) ==
    endpoint \o <<"/openai/deployments/">> \o deployment
             \o <<"/chat/completions?api-version=">> \o api_version

(***************************************************************************)
(* Request bodies (schema variants).                                       *)
(***************************************************************************)
ChatMessages(q) ==
    << [role |-> "system", content |-> SystemPrompt],
       [role |-> "user",   content |-> q] >>

\* Structure 1: modern schema
PayloadA(q, se, sk, si) ==
    [ messages |-> ChatMessages(q), temperature |-> 0, max_tokens |-> 1000,
      data_sources |-> << [ type |-> "azure_search",
                            parameters |->
                              [ endpoint |-> se, index_name |-> si,
                                authentication |-> [type |-> "api_key", key |-> sk],
                                query_type |-> "simple", in_scope |-> TRUE,
                                top_n_documents |-> 5,
                                role_information |-> SystemPrompt ] ] >> ]

\* Structure 2: legacy schema
PayloadB(q, se, sk, si) ==
    [ messages |-> ChatMessages(q), temperature |-> 0, max_tokens |-> 1000,
      data_sources |-> << [ type |-> "AzureCognitiveSearch",
                            parameters |->
                              [ endpoint |-> se, index_name |-> si,
                                authentication |-> [type |-> "api_key", key |-> sk] ] ] >> ]

\* Structure 3: simplified schema, key passed directly
PayloadC(q, se, sk, si) ==
    [ messages |-> ChatMessages(q), temperature |-> 0, max_tokens |-> 1000,
      data_sources |-> << [ type |-> "azure_search",
                            parameters |->
                              [ endpoint |-> se, index_name |-> si, key |-> sk ] ] >> ]

\* Fallback without search integration (no data_sources key)
PayloadD(q) ==
    [ messages |-> ChatMessages(q), temperature |-> 0, max_tokens |-> 1000,
      data_sources |-> << >> ]

\* The list payloads_to_try of main_add_chatconsole.py: always four entries.
PayloadsAdd(q, se, sk, si) ==
    << PayloadA(q, se, sk, si), PayloadB(q, se, sk, si),
       PayloadC(q, se, sk, si), PayloadD(q) >>

\* mutant: the two search schemas in the wrong order
PayloadsVoiceSwapped(q, se, sk, si) ==
    (IF AllSearch(se, sk, si)
     THEN << PayloadB(q, se, sk, si), PayloadA(q, se, sk, si) >>
     ELSE << >>)
    \o << PayloadD(q) >>

\* mutant: the fallback is appended only when search is not configured
PayloadsVoiceSearchOnly(q, se, sk, si) ==
    IF AllSearch(se, sk, si)
    THEN << PayloadA(q, se, sk, si), PayloadB(q, se, sk, si) >>
    ELSE << PayloadD(q) >>

\* The list payloads_to_try of main_voice_chat_console.py.
PayloadsVoice(q, se, sk, si) ==
    (IF AllSearch(se, sk, si)
     THEN << PayloadA(q, se, sk, si), PayloadB(q, se, sk, si) >>
     ELSE << >>)
    \o << PayloadD(q) >>

BuildPayloads(f, q, se, sk, si) ==
    IF f = "add" THEN PayloadsAdd(q, se, sk, si) ELSE PayloadsVoice(q, se, sk, si)

(***************************************************************************)
(* The completion endpoint: what one POST can come back with.              *)
(***************************************************************************)
HttpOk == [exc : {"none"}, status : {200}, json : {TRUE}, shape : {TRUE}, content : Contents]

HttpMalformed ==
    { [exc |-> "none", status |-> 200, json |-> FALSE, shape |-> FALSE, content |-> None],
      [exc |-> "none", status |-> 200, json |-> TRUE,  shape |-> FALSE, content |-> None] }

HttpError == { [exc |-> "none", status |-> 500, json |-> TRUE, shape |-> FALSE, content |-> None] }

TransportFailure ==
    { [exc |-> e, status |-> 0, json |-> FALSE, shape |-> FALSE, content |-> None]
        : e \in {"Timeout", "ConnectionError"} }

Answers == HttpOk \cup HttpMalformed \cup HttpError \cup TransportFailure

\* requests.post raises MissingSchema for a URL without a scheme
MissingSchema ==
    [exc |-> "MissingSchema", status |-> 0, json |-> FALSE, shape |-> FALSE, content |-> None]

HasScheme(u) == startswith(u, "https://") \/ startswith(u, "http://")

\* what requests.post(u, ...) can come back with
PostAnswers(u) == IF HasScheme(u) THEN Answers ELSE {MissingSchema}

(***************************************************************************)
(* call_azure_openai_with_search_rest: one iteration of the for loop.      *)
(***************************************************************************)
NoError == [variant |-> 0, status |-> 0, message |-> "None", exc |-> "none"]

NoResult == [kind |-> "none", value |-> None, msg |-> "", last_error |-> NoError]

Attempt(idx, status, message, exc) ==
    [variant |-> idx, status |-> status, message |-> message, exc |-> exc]

LogRecord(level, event, a) == [level |-> level, event |-> event, attempt |-> a]

\* `if i == 4` (add) / `if i == len(payloads_to_try)` (voice)
UsedFallback(f, idx, n) == IF f = "add" THEN idx = 4 ELSE idx = n

FallbackWarning(idx) ==
    LogRecord("warning", "fallback",
              Attempt(idx, 200, "Used fallback mode without search integration", "none"))

\* error_msg of a failed iteration; status 0 stands for "no status in the message"
ErrorMsg(f, idx, ans) ==
    CASE ans.exc = "Timeout" /\ f = "voice" ->
            Attempt(idx, 0, "failed - Request timeout", "Timeout")
      [] ans.exc = "ConnectionError" /\ f = "voice" ->
            Attempt(idx, 0, "failed - Connection error", "ConnectionError")
      [] ans.exc # "none" ->
            Attempt(idx, 0, "failed with error", ans.exc)
      [] ans.status = 200 /\ ~ans.json ->
            Attempt(idx, 0, "failed with error", "JSONDecodeError")
      [] ans.status = 200 /\ ~ans.shape ->
            Attempt(idx, 0, "failed with error", "KeyError")
      [] OTHER ->
            Attempt(idx, ans.status, "failed - Status", "none")

\* log level of error_msg: logger.warning in the else branch, logger.error in handlers
ErrorLevel(ans) == IF ans.exc = "none" /\ ans.status # 200 THEN "warning" ELSE "error"

\* mutant: every 200 answer ends the call, whatever its body
HandleResponseTrusting200(f, idx, n, ans) ==
    IF ans.exc = "none" /\ ans.status = 200
    THEN [ ok |-> TRUE, value |-> ans.content, error |-> NoError,
           logs |-> IF UsedFallback(f, idx, n) THEN << FallbackWarning(idx) >> ELSE << >> ]
    ELSE [ ok |-> FALSE, value |-> None, error |-> ErrorMsg(f, idx, ans),
           logs |-> << LogRecord(ErrorLevel(ans), "attempt", ErrorMsg(f, idx, ans)) >> ]

\* mutant: a non-200 status is not logged
HandleResponseUnlogged(f, idx, n, ans) ==
    IF ans.exc = "none" /\ ans.status = 200 /\ ans.json /\ ans.shape
    THEN [ ok |-> TRUE, value |-> ans.content, error |-> NoError,
           logs |-> IF UsedFallback(f, idx, n) THEN << FallbackWarning(idx) >> ELSE << >> ]
    ELSE [ ok |-> FALSE, value |-> None, error |-> ErrorMsg(f, idx, ans),
           logs |-> IF ans.exc = "none" /\ ans.status # 200
                    THEN << >>
                    ELSE << LogRecord("error", "attempt", ErrorMsg(f, idx, ans)) >> ]

\* The body of the loop for payload idx of n, given the endpoint's answer.
HandleResponse(f, idx, n, ans) ==
    IF ans.exc = "none" /\ ans.status = 200
    THEN IF ~ans.json
         THEN [ ok |-> FALSE, value |-> None, error |-> ErrorMsg(f, idx, ans),
                logs |-> << LogRecord("error", "attempt", ErrorMsg(f, idx, ans)) >> ]
         ELSE LET warn == IF UsedFallback(f, idx, n)
                          THEN << FallbackWarning(idx) >> ELSE << >>
              IN  IF ans.shape
                  THEN [ ok |-> TRUE, value |-> ans.content, error |-> NoError,
                         logs |-> warn ]
                  ELSE [ ok |-> FALSE, value |-> None, error |-> ErrorMsg(f, idx, ans),
                         logs |-> warn \o
                                  << LogRecord("error", "attempt", ErrorMsg(f, idx, ans)) >> ]
    ELSE [ ok |-> FALSE, value |-> None, error |-> ErrorMsg(f, idx, ans),
           logs |-> << LogRecord(ErrorLevel(ans), "attempt", ErrorMsg(f, idx, ans)) >> ]

\* mutant: a failed variant is submitted again
NextIndexRetry(idx) == idx

\* mutant: the loop skips a variant
NextIndexSkip(idx) == idx + 2

\* enumerate(payloads_to_try, 1): the index of the next iteration
NextIndex(idx) == idx + 1

\* raise Exception(f"All API payload structures failed. Last error: {last_error}")
AllFailed(err) ==
    [kind |-> "raise", value |-> None,
     msg |-> "All API payload structures failed", last_error |-> err]

InvalidEndpoint ==
    [kind |-> "raise", value |-> None,
     msg |-> "Invalid Azure OpenAI endpoint format", last_error |-> NoError]

\* endpoint.rstrip('/') on None (add)
AttributeError ==
    [kind |-> "raise", value |-> None,
     msg |-> "'NoneType' object has no attribute 'rstrip'", last_error |-> NoError]

Returned(v) == [kind |-> "return", value |-> v, msg |-> "", last_error |-> NoError]

Request(u, key, payload, timeout) ==
    [url |-> u, api_key |-> key, json |-> payload, timeout |-> timeout]

\* Entry of call_azure_openai_with_search_rest up to the first iteration.
ClientEnter(c, q) ==
    LET endpoint == IF file = "voice"
                    THEN validate_azure_endpoint_format(c.azure_oai_endpoint)
                    ELSE IF c.azure_oai_endpoint = None THEN None
                         ELSE rstrip(c.azure_oai_endpoint)
        failsEarly == IF file = "voice" THEN ~Truthy(endpoint) ELSE endpoint = None
    IN  /\ query' = q
        /\ i' = 1
        /\ last_error' = NoError
        /\ log' = << >>
        /\ IF failsEarly
           THEN /\ url' = << >>
                /\ payloads_to_try' = << >>
                /\ pc' = "raised"
                /\ result' = IF file = "voice" THEN InvalidEndpoint ELSE AttributeError
           ELSE /\ url' = BuildUrl(endpoint, c.azure_oai_deployment, c.azure_api_version)
                /\ payloads_to_try' =
                      BuildPayloads(file, q, c.azure_search_endpoint,
                                    c.azure_search_key, c.azure_search_index)
                /\ pc' = "loop"
                /\ result' = NoResult

\* One iteration: POST payload i, then the if/else and the except clauses.
Post ==
    /\ pc = "loop"
    /\ i <= Len(payloads_to_try)
    /\ \E ans \in PostAnswers(url) :
         LET n == Len(payloads_to_try)
             h == HandleResponse(file, i, n, ans)
         IN  /\ sent' = Append(sent, Request(url, config.azure_oai_key, payloads_to_try[i], 60))
             /\ received' = Append(received, ans)
             /\ IF h.ok
                THEN /\ pc' = "returned"
                     /\ result' = Returned(h.value)
                     /\ log' = log \o h.logs
                     /\ UNCHANGED <<i, last_error>>
                ELSE /\ i' = NextIndex(i)
                     /\ last_error' = h.error
                     /\ IF NextIndex(i) > n
                        THEN /\ pc' = "raised"
                             /\ result' = AllFailed(h.error)
                             /\ log' = log \o h.logs \o
                                       << LogRecord("error", "all_failed", h.error) >>
                        ELSE /\ pc' = "loop"
                             /\ result' = NoResult
                             /\ log' = log \o h.logs
    /\ UNCHANGED <<file, config, show_settings, messages, recording, query, url,
                   payloads_to_try, tts, synth, audio, transcription>>

(***************************************************************************)
(* The completion client applied to any validated configuration.           *)
(***************************************************************************)
Configs(f) == { load_config(f, env) : env \in Env }

NoSpeech(c) ==
    /\ c.azure_speech_key = None
    /\ c.azure_speech_region = None
    /\ c.azure_speech_voice \in {None, DefaultVoice}

ClientInit ==
    /\ file \in Files
    /\ config \in { c \in Configs(file) : validate_config(c) /\ NoSpeech(c) }
    /\ show_settings = FALSE
    /\ messages = << >>
    /\ recording = "absent"
    /\ pc = "idle"
    /\ query = << >>
    /\ url = << >>
    /\ payloads_to_try = << >>
    /\ i = 0
    /\ last_error = NoError
    /\ sent = << >>
    /\ received = << >>
    /\ log = << >>
    /\ result = NoResult
    /\ tts = "not_called"
    /\ synth = NoSynth
    /\ audio = NoAudio
    /\ transcription = NoTranscription

\* call_azure_openai_with_search_rest(config..., query, ...) called on its own
DirectCall ==
    /\ pc = "idle"
    /\ \E q \in Queries : ClientEnter(config, q)
    /\ sent' = << >>
    /\ received' = << >>
    /\ UNCHANGED <<file, config, show_settings, messages, recording, tts, synth, audio, transcription>>

ClientNext == DirectCall \/ Post

ClientSpec == ClientInit /\ [][ClientNext]_vars

(***************************************************************************)
(* The client called with any spelling of the endpoint.                    *)
(***************************************************************************)
\* longest endpoint value, in tokens
MaxEndpointLen == 3

EndpointTokens == {"https://", "http://", "host", "/"}

\* the non-empty values AZURE_OAI_ENDPOINT can hold
EndpointStrings == UNION { [1..n -> EndpointTokens] : n \in 1..MaxEndpointLen }

EndpointEnv ==
    [ AZURE_OAI_ENDPOINT    : EndpointStrings,
      AZURE_OAI_KEY         : {<<"key">>},
      AZURE_OAI_DEPLOYMENT  : {<<"dep">>},
      AZURE_SEARCH_ENDPOINT : {None},
      AZURE_SEARCH_KEY      : {None},
      AZURE_SEARCH_INDEX    : {None},
      AZURE_API_VERSION     : {<<"2024-02-15-preview">>},
      AZURE_SPEECH_KEY      : {None},
      AZURE_SPEECH_REGION   : {None},
      AZURE_SPEECH_VOICE    : {None} ]

EndpointInit ==
    /\ file \in Files
    /\ config \in { load_config(file, env) : env \in EndpointEnv }
    /\ show_settings = FALSE
    /\ messages = << >>
    /\ recording = "absent"
    /\ pc = "idle"
    /\ query = << >>
    /\ url = << >>
    /\ payloads_to_try = << >>
    /\ i = 0
    /\ last_error = NoError
    /\ sent = << >>
    /\ received = << >>
    /\ log = << >>
    /\ result = NoResult
    /\ tts = "not_called"
    /\ synth = NoSynth
    /\ audio = NoAudio
    /\ transcription = NoTranscription

EndpointSpec == EndpointInit /\ [][ClientNext]_vars

(***************************************************************************)
(* The application: main() serves one user action per rerun.               *)
(***************************************************************************)
UserMessage(q) == [role |-> "user", content |-> [kind |-> "query", text |-> q, error |-> NoResult]]

AssistantMessage(text) ==
    [role |-> "assistant", content |-> [kind |-> "response", text |-> text, error |-> NoResult]]

\* f"เกิดข้อผิดพลาด: {str(e)}"
ErrorMessage(e) ==
    [role |-> "assistant", content |-> [kind |-> "error", text |-> << >>, error |-> e]]

\* the fixed answer of main_add_chatconsole.py when search is not configured
SearchUnavailable == <<"search system unavailable, check the settings">>

\* locals of the client do not outlive the call
ClientLocalsGone ==
    /\ query' = << >>
    /\ url' = << >>
    /\ payloads_to_try' = << >>
    /\ i' = 0
    /\ last_error' = NoError
    /\ log' = << >>
    /\ result' = NoResult

ClientIdle ==
    /\ pc' = "idle"
    /\ ClientLocalsGone

Init ==
    /\ file \in Files
    /\ config \in Configs(file)
    /\ show_settings = FALSE
    /\ messages = << >>
    /\ recording = "absent"
    /\ pc = "idle"
    /\ query = << >>
    /\ url = << >>
    /\ payloads_to_try = << >>
    /\ i = 0
    /\ last_error = NoError
    /\ sent = << >>
    /\ received = << >>
    /\ log = << >>
    /\ result = NoResult
    /\ tts = "not_called"
    /\ synth = NoSynth
    /\ audio = NoAudio
    /\ transcription = NoTranscription

HistoryHasRoom == Len(messages) < 2 * MaxQueries

\* process_query(query, config) up to the first request of the client
process_query(q) ==
    /\ sent' = << >>
    /\ received' = << >>
    /\ tts' = "not_called"
    /\ synth' = NoSynth
    /\ IF file = "add" /\ ~AllSearch(config.azure_search_endpoint,
                                     config.azure_search_key,
                                     config.azure_search_index)
       THEN /\ messages' = messages \o << UserMessage(q), AssistantMessage(SearchUnavailable) >>
            /\ ClientIdle
       ELSE /\ messages' = Append(messages, UserMessage(q))
            /\ ClientEnter(config, q)

\* the "Send" button of the text tab
SendText ==
    /\ pc = "idle"
    /\ HistoryHasRoom
    /\ \E text_input \in Queries \cup {<< >>} :
         /\ Truthy(text_input) /\ validate_config(config)
         /\ process_query(text_input)
    /\ UNCHANGED <<file, config, show_settings, recording, audio, transcription>>

(***************************************************************************)
(* Speech synthesis.                                                       *)
(***************************************************************************)
\* result.reason of speak_text_async(text).get(), or an exception raised by it
SpeechOutcomes == {"SynthesizingAudioCompleted", "Canceled", "OtherReason", "Exception"}

\* what the speech SDK can do for a configuration: assigning None as the voice
\* name may be rejected by the SDK before a synthesizer exists
SdkOutcomes(c) ==
    SpeechOutcomes \cup (IF c.azure_speech_voice = None THEN {"TypeError"} ELSE {})

\* text_to_speech returned False before AudioOutputConfig / SpeechSynthesizer
NotSynthesized == [result |-> FALSE, raised |-> FALSE, synthesizer |-> FALSE, request |-> None]

\* the variant of text_to_speech whose try has no except clause
TextToSpeechRaising(f, c, text, outcome) ==
    IF f = "voice" /\ (~Truthy(c.azure_speech_key) \/ ~Truthy(c.azure_speech_region))
    THEN NotSynthesized
    ELSE [ result |-> outcome = "SynthesizingAudioCompleted",
           raised |-> outcome \in {"Exception", "TypeError"},
           synthesizer |-> TRUE, request |-> text ]

\* text_to_speech(text, config) given what the speech SDK does
text_to_speech(f, c, text, outcome) ==
    IF f = "voice" /\ (~Truthy(c.azure_speech_key) \/ ~Truthy(c.azure_speech_region))
    THEN NotSynthesized
    ELSE IF ~Truthy(c.azure_speech_key) \/ ~Truthy(c.azure_speech_region)
    THEN NotSynthesized             \* SpeechConfig(subscription, region) raises, caught
    ELSE IF c.azure_speech_voice = None /\ outcome = "TypeError"
    THEN NotSynthesized             \* the voice name setter raises, caught
    ELSE [ result |-> outcome = "SynthesizingAudioCompleted", raised |-> FALSE,
           synthesizer |-> TRUE, request |-> text ]

\* the exception process_query would catch if text_to_speech let one escape
SpeechFailure == [kind |-> "raise", value |-> None, msg |-> "speech", last_error |-> NoError]

\* the variant of process_query that writes the answer over the last entry
DeliverReplacing(history, res) ==
    LET answer == IF res.kind = "return" THEN AssistantMessage(res.value)
                  ELSE ErrorMessage(res)
    IN  IF history = << >> THEN << answer >>
        ELSE [history EXCEPT ![Len(history)] = answer]

\* the variant of process_query whose except clause appends nothing
DeliverResponseOnly(history, res) ==
    IF res.kind = "return"
    THEN Append(history, AssistantMessage(res.value))
    ELSE history

\* process_query: the message appended for what the client returned or raised
Deliver(history, res) ==
    IF res.kind = "return"
    THEN Append(history, AssistantMessage(res.value))
    ELSE Append(history, ErrorMessage(res))

\* main_voice_chat_console.py: if config['azure_speech_key'] and config['azure_speech_region']
SpeechConfigured(f, c) ==
    f = "voice" /\ Truthy(c.azure_speech_key) /\ Truthy(c.azure_speech_region)

\* process_query after the client returned or raised, up to text_to_speech / st.rerun()
ProcessQueryFinish ==
    /\ pc \in {"returned", "raised"}
    /\ messages' = Deliver(messages, result)
    /\ pc' = IF result.kind = "return" /\ SpeechConfigured(file, config)
             THEN "speaking" ELSE "idle"
    /\ ClientLocalsGone
    /\ sent' = << >>
    /\ received' = << >>
    /\ UNCHANGED <<file, config, show_settings, recording, tts, synth, audio, transcription>>

\* process_query: text_to_speech(response, config), then st.rerun()
Speak ==
    /\ pc = "speaking"
    /\ \E outcome \in SdkOutcomes(config) :
         LET response == messages[Len(messages)].content.text
             r == text_to_speech(file, config, response, outcome)
         IN  /\ tts' = IF r.result THEN "true" ELSE "false"
             /\ synth' = [synthesizer |-> r.synthesizer, request |-> r.request]
             /\ messages' = IF r.raised
                            THEN Append(messages, ErrorMessage(SpeechFailure))
                            ELSE messages
    /\ pc' = "idle"
    /\ UNCHANGED <<file, config, show_settings, recording, query, url, payloads_to_try,
                   i, last_error, sent, received, log, result, audio, transcription>>

\* values a speech variable can hold: not set, set to nothing, set
SpeechEnv ==
    [ AZURE_OAI_ENDPOINT    : {<<"https://", "host">>},
      AZURE_OAI_KEY         : {<<"key">>},
      AZURE_OAI_DEPLOYMENT  : {<<"dep">>},
      AZURE_SEARCH_ENDPOINT : {None},
      AZURE_SEARCH_KEY      : {None},
      AZURE_SEARCH_INDEX    : {None},
      AZURE_API_VERSION     : {None},
      AZURE_SPEECH_KEY      : {None, << >>, <<"spkey">>},
      AZURE_SPEECH_REGION   : {None, << >>, <<"region">>},
      AZURE_SPEECH_VOICE    : {None, << >>, <<"th-TH-NiwatNeural">>} ]

SpeechInit ==
    /\ file \in Files
    /\ config \in { load_config(file, env) : env \in SpeechEnv }
    /\ show_settings = FALSE
    /\ messages = << >>
    /\ recording = "absent"
    /\ pc = "idle"
    /\ query = << >>
    /\ url = << >>
    /\ payloads_to_try = << >>
    /\ i = 0
    /\ last_error = NoError
    /\ sent = << >>
    /\ received = << >>
    /\ log = << >>
    /\ result = NoResult
    /\ tts = "not_called"
    /\ synth = NoSynth
    /\ audio = NoAudio
    /\ transcription = NoTranscription

\* text_to_speech(text, config) called on its own
DirectSpeak ==
    /\ pc = "idle"
    /\ tts = "not_called"
    /\ \E text \in Contents, outcome \in SdkOutcomes(config) :
         LET r == text_to_speech(file, config, text, outcome)
         IN  /\ tts' = IF r.result THEN "true" ELSE "false"
             /\ synth' = [synthesizer |-> r.synthesizer, request |-> r.request]
    /\ UNCHANGED <<file, config, show_settings, messages, recording, pc, query, url,
                   payloads_to_try, i, last_error, sent, received, log, result,
                   audio, transcription>>

SpeechSpec == SpeechInit /\ [][DirectSpeak]_vars

\* process_query(query, config) called on its own, whatever the configuration
DirectQuery ==
    /\ pc = "idle"
    /\ HistoryHasRoom
    /\ \E q \in Queries : process_query(q)
    /\ UNCHANGED <<file, config, show_settings, recording, audio, transcription>>

QueryNext == DirectQuery \/ Post \/ ProcessQueryFinish \/ Speak

QuerySpec == Init /\ [][QueryNext]_vars

\* process_query calls in a row on one history
MaxCalls == 2

\* configurations of a chat of several queries: endpoint set or not, search
\* complete or absent, speech configured or not
HistoryEnv ==
    { env \in Env :
        /\ env.AZURE_OAI_ENDPOINT \in {None, <<"https://", "host", "/">>}
        /\ env.AZURE_OAI_KEY # None
        /\ env.AZURE_OAI_DEPLOYMENT # None
        /\ env.AZURE_API_VERSION # None
        /\ (env.AZURE_SEARCH_ENDPOINT = None) = (env.AZURE_SEARCH_KEY = None)
        /\ (env.AZURE_SEARCH_KEY = None) = (env.AZURE_SEARCH_INDEX = None)
        /\ (env.AZURE_SPEECH_KEY = None) = (env.AZURE_SPEECH_REGION = None) }

HistoryInit ==
    /\ Init
    /\ config \in { load_config(file, env) : env \in HistoryEnv }

\* process_query(query, config) called again on the history it left
NextQuery ==
    /\ pc = "idle"
    /\ Len(messages) < 2 * MaxCalls
    /\ \E q \in Queries : process_query(q)
    /\ UNCHANGED <<file, config, show_settings, recording, audio, transcription>>

HistoryNext == NextQuery \/ Post \/ ProcessQueryFinish \/ Speak

HistorySpec == HistoryInit /\ [][HistoryNext]_vars

(***************************************************************************)
(* Voice tab: record, transcribe, send.                                    *)
(***************************************************************************)
CHUNK == 1024

CHANNELS == 1

RATE == 44100

\* p.get_sample_size(pyaudio.paInt16), bytes per sample
SampleWidth == 2

\* st.selectbox("Recording Duration (seconds)", [3, 5, 7, 10])
Durations == {3, 5, 7, 10}

\* a loop bound that rounds the chunk count up
NumChunksCeil(duration) == (RATE * duration + CHUNK - 1) \div CHUNK

\* int(RATE / CHUNK * duration): RATE / CHUNK = 11025 / 256 is exact in binary
\* floating point, so is its product with a small integer; int() truncates
NumChunks(duration) == (RATE * duration) \div CHUNK

\* where record_audio can fail: PyAudio(), p.open, the k-th stream.read,
\* NamedTemporaryFile, wave.open / writeframes; "none": it does not fail
RecordFaults(duration) ==
    { [at |-> a, chunk |-> 0] : a \in {"none", "PyAudio", "open", "tempfile", "wave"} }
      \cup { [at |-> "read", chunk |-> k] : k \in {1, NumChunks(duration)} }

TempFile == <<"tmp.wav">>

\* record_audio(duration) given where it fails: the state it leaves and the path it returns
record_audio(duration, fault) ==
    LET n == NumChunks(duration)
        acquired == [NoAudio EXCEPT !.duration = duration]
        released == [acquired EXCEPT !.p = "terminated", !.stream = "closed", !.chunks = n]
    IN  CASE fault.at = "PyAudio"  -> acquired
          [] fault.at = "open"     -> [acquired EXCEPT !.p = "open"]
          [] fault.at = "read"     -> [acquired EXCEPT !.p = "open", !.stream = "open",
                                                       !.chunks = fault.chunk - 1]
          [] fault.at = "tempfile" -> released
          [] fault.at = "wave"     -> [released EXCEPT !.file = "exists"]
          [] OTHER                 ->
               [released EXCEPT !.file = "exists", !.path = TempFile,
                                !.wav = [ nchannels |-> CHANNELS, sampwidth |-> SampleWidth,
                                          framerate |-> RATE, nframes |-> n * CHUNK ]]

\* the two prefixes main() tests with startswith
CannotPrefix == "Cannot (mai samart)"

ErrorPrefix == "Error (koet kho phit phlat)"

\* main_add_chatconsole.py holds the same two literals, and the three messages
\* that begin with them, with their bytes decoded in the wrong character set
CannotPrefixGarbled == "Cannot (mai samart), misdecoded"

ErrorPrefixGarbled == "Error (koet kho phit phlat), misdecoded"

CannotPrefixOf(f) == IF f = "voice" THEN CannotPrefix ELSE CannotPrefixGarbled

ErrorPrefixOf(f) == IF f = "voice" THEN ErrorPrefix ELSE ErrorPrefixGarbled

Unintelligible(f) == <<CannotPrefixOf(f), "understand the speech">>

RecognitionServiceError(f) == <<ErrorPrefixOf(f), "in speech recognition">>

TranscriptionError(f) == <<ErrorPrefixOf(f), "in audio conversion">>

\* what the user can have said, as recognize_google returns it (Thai text)
RecognizedTexts ==
    Queries \cup {<< >>, <<CannotPrefix, "repay the loan">>, <<ErrorPrefix, "on my statement">>}

\* what the recognizer does with the recording
RecognizerOutcomes ==
    { [kind |-> "text", text |-> t] : t \in RecognizedTexts }
      \cup { [kind |-> k, text |-> << >>] : k \in {"UnknownValueError", "RequestError", "Exception"} }

\* the variant of transcribe_audio with one placeholder for every failure
TranscribeAudioOnePlaceholder(f, outcome) ==
    IF outcome.kind = "text" THEN outcome.text ELSE Unintelligible(f)

\* transcribe_audio(audio_file_path) given what the recognizer does
transcribe_audio(f, outcome) ==
    CASE outcome.kind = "text"              -> outcome.text
      [] outcome.kind = "UnknownValueError" -> Unintelligible(f)
      [] outcome.kind = "RequestError"      -> RecognitionServiceError(f)
      [] OTHER                              -> TranscriptionError(f)

\* what transcribe_audio can return
Transcriptions(f) == { transcribe_audio(f, o) : o \in RecognizerOutcomes }

IsRealText(f, t) ==
    Truthy(t) /\ ~startswith(t, CannotPrefixOf(f)) /\ ~startswith(t, ErrorPrefixOf(f))

\* the "Start Recording" button, up to the call of record_audio
StartRecording ==
    /\ pc = "idle"
    /\ validate_config(config)
    /\ HistoryHasRoom
    /\ recording \in {"absent", "false"}
    /\ recording' = "true"
    /\ \E duration \in Durations : audio' = [NoAudio EXCEPT !.duration = duration]
    /\ pc' = "recording"
    /\ UNCHANGED <<file, config, show_settings, messages, query, url, payloads_to_try,
                   i, last_error, sent, received, log, result, tts, synth, transcription>>

\* the variant of main that clears the flag inside `if audio_file_path:`
FlagAfterRecordOnSuccess(path) == IF path # None THEN "false" ELSE "true"

\* st.session_state.recording = False, whatever record_audio returned
FlagAfterRecord(path) == "false"

\* audio_file_path = record_audio(duration); st.session_state.recording = False
Record ==
    /\ pc = "recording"
    /\ \E fault \in RecordFaults(audio.duration) :
         /\ audio' = record_audio(audio.duration, fault)
         /\ recording' = FlagAfterRecord(record_audio(audio.duration, fault).path)
    /\ pc' = "recorded"
    /\ UNCHANGED <<file, config, show_settings, messages, query, url, payloads_to_try,
                   i, last_error, sent, received, log, result, tts, synth, transcription>>

\* if audio_file_path: transcribe_audio, then os.remove in try / except: pass;
\* else "Could not record audio" and the rerun ends
Transcribe ==
    /\ pc = "recorded"
    /\ IF audio.path # None
       THEN /\ \E outcome \in RecognizerOutcomes :
                 transcription' = [ outcome |-> outcome.kind, recognized |-> outcome.text,
                                    text |-> transcribe_audio(file, outcome) ]
            /\ \E removed \in BOOLEAN :
                 audio' = [audio EXCEPT !.file = IF removed THEN "deleted" ELSE "exists"]
            /\ pc' = "transcribed"
       ELSE /\ transcription' = NoTranscription
            /\ audio' = NoAudio
            /\ pc' = "idle"
    /\ UNCHANGED <<file, config, show_settings, messages, recording, query, url,
                   payloads_to_try, i, last_error, sent, received, log, result, tts, synth>>

\* if transcribed_text and not a placeholder: process_query, else st.error
ForwardTranscription ==
    /\ pc = "transcribed"
    /\ IF IsRealText(file, transcription.text)
       THEN process_query(transcription.text)
       ELSE /\ ClientIdle
            /\ UNCHANGED <<messages, sent, received, tts, synth>>
    /\ audio' = NoAudio
    /\ transcription' = NoTranscription
    /\ UNCHANGED <<file, config, show_settings, recording>>

\* longest recording asked of record_audio called on its own, in seconds
MaxDuration == 12

RecordInit ==
    /\ Init
    /\ validate_config(config)
    /\ NoSpeech(config)

\* record_audio(duration) called on its own
DirectRecord ==
    /\ pc = "idle"
    /\ \E duration \in 1..MaxDuration :
         \E fault \in RecordFaults(duration) :
            audio' = record_audio(duration, fault)
    /\ pc' = "recorded"
    /\ UNCHANGED <<file, config, show_settings, messages, recording, query, url,
                   payloads_to_try, i, last_error, sent, received, log, result, tts,
                   synth, transcription>>

RecordSpec == RecordInit /\ [][DirectRecord]_vars

\* the "Reset" button
ResetRecording ==
    /\ pc = "idle"
    /\ recording # "absent"
    /\ recording' = "false"
    /\ UNCHANGED <<file, config, show_settings, messages, pc, query, url,
                   payloads_to_try, i, last_error, sent, received, log, result, tts,
                   synth, audio, transcription>>

(***************************************************************************)
(* Settings panel and chat housekeeping.                                   *)
(***************************************************************************)
\* the gear button
ToggleSettings ==
    /\ pc = "idle"
    /\ show_settings' = ~show_settings
    /\ UNCHANGED <<file, config, messages, recording, pc, query, url,
                   payloads_to_try, i, last_error, sent, received, log, result, tts, synth, audio, transcription>>

TestPayload == [messages |-> << [role |-> "user", content |-> <<"Hello">>] >>,
                max_tokens |-> 10]

ProbeAnswers ==
    Answers \cup
    { [exc |-> "none", status |-> st, json |-> TRUE, shape |-> FALSE, content |-> None]
        : st \in {401, 403, 404} }

ProbeResult(ok, msg) == [kind |-> "probe", value |-> ok, msg |-> msg, last_error |-> NoError]

\* (success, message) of test_azure_connection for the endpoint's answer
ProbeOutcome(ans) ==
    CASE ans.exc = "Timeout"         -> ProbeResult(FALSE, "Connection timeout")
      [] ans.exc = "ConnectionError" -> ProbeResult(FALSE, "Connection error")
      [] ans.status = 200            -> ProbeResult(TRUE, "Connection successful")
      [] ans.status = 404            -> ProbeResult(FALSE, "Resource not found (404)")
      [] ans.status = 401            -> ProbeResult(FALSE, "Authentication failed (401)")
      [] ans.status = 403            -> ProbeResult(FALSE, "Access forbidden (403)")
      [] OTHER                       -> ProbeResult(FALSE, "HTTP status")

\* the "Test Connection" button (main_voice_chat_console.py only)
test_azure_connection ==
    /\ pc = "idle"
    /\ file = "voice"
    /\ show_settings
    /\ LET endpoint == validate_azure_endpoint_format(config.azure_oai_endpoint)
       IN  IF ~Truthy(endpoint)
           THEN /\ result' = ProbeResult(FALSE, "Invalid endpoint format")
                /\ sent' = << >>
                /\ received' = << >>
           ELSE \E ans \in ProbeAnswers :
                  /\ sent' = << Request(BuildUrl(endpoint, config.azure_oai_deployment,
                                                 config.azure_api_version),
                                        config.azure_oai_key, TestPayload, 10) >>
                  /\ received' = << ans >>
                  /\ result' = ProbeOutcome(ans)
    /\ pc' = "probed"
    /\ UNCHANGED <<file, config, show_settings, messages, recording, query, url,
                   payloads_to_try, i, last_error, log, tts, synth, audio, transcription>>

\* st.success / st.error with the probe's message; the rerun ends
ShowProbeResult ==
    /\ pc = "probed"
    /\ ClientIdle
    /\ sent' = << >>
    /\ received' = << >>
    /\ UNCHANGED <<file, config, show_settings, messages, recording, tts, synth, audio, transcription>>

\* the "Clear Chat History" button (main_voice_chat_console.py only)
ClearChat ==
    /\ pc = "idle"
    /\ file = "voice"
    /\ messages' = << >>
    /\ UNCHANGED <<file, config, show_settings, recording, pc, query, url,
                   payloads_to_try, i, last_error, sent, received, log, result, tts, synth, audio, transcription>>

Next ==
    \/ SendText
    \/ StartRecording
    \/ Record
    \/ Transcribe
    \/ ForwardTranscription
    \/ ResetRecording
    \/ ToggleSettings
    \/ test_azure_connection
    \/ ShowProbeResult
    \/ ClearChat
    \/ Post
    \/ ProcessQueryFinish
    \/ Speak

Spec == Init /\ [][Next]_vars

(***************************************************************************)
(* Vocabulary of the properties.                                           *)
(***************************************************************************)
\* which schema variant a request body is, read from its structure
SchemaOf(p) ==
    IF p.data_sources = << >> THEN "D"
    ELSE LET d == p.data_sources[1]
             fields == DOMAIN d.parameters
         IN  CASE d.type = "azure_search" /\ "authentication" \in fields
                    /\ "query_type" \in fields                             -> "A"
               [] d.type = "AzureCognitiveSearch" /\ "authentication" \in fields -> "B"
               [] d.type = "azure_search" /\ "key" \in fields
                    /\ "authentication" \notin fields                      -> "C"
               [] OTHER                                                    -> "?"

Schemas(list) == [k \in 1..Len(list) |-> SchemaOf(list[k])]

SearchConfigured ==
    AllSearch(config.azure_search_endpoint, config.azure_search_key,
              config.azure_search_index)

\* the client is past the construction of payloads_to_try
ListBuilt == pc \in {"loop", "returned", "raised"} /\ payloads_to_try # << >>

\* every body carries the query, every search body the search configuration
CarriesInputs(p) ==
    /\ p.messages[2].content = query
    /\ p.data_sources # << >> =>
         LET ps == p.data_sources[1].parameters
         IN  /\ ps.endpoint = config.azure_search_endpoint
             /\ ps.index_name = config.azure_search_index
             /\ IF "authentication" \in DOMAIN ps
                THEN ps.authentication.key = config.azure_search_key
                ELSE ps.key = config.azure_search_key

FailedAttempts == SelectSeq(log, LAMBDA r : r.event = "attempt")

DegradedEmitted == \E k \in 1..Len(log) : log[k].event = "fallback"

\* the attempt records the raised exception carries: its text holds last_error only
AttemptsCarried(r) == IF r.last_error = NoError THEN << >> ELSE << r.last_error >>

ClientRunning == pc \in {"loop", "returned", "raised"}

C2_OnlyDWithoutSearch ==
    (ListBuilt /\ ~SearchConfigured) => Schemas(payloads_to_try) = <<"D">>

C4_StopsAtFirst200 ==
    ClientRunning =>
        /\ \A k \in 1..Len(sent) : sent[k].json = payloads_to_try[k]
        /\ \A k \in 1..Len(received) : received[k].status = 200 => k = Len(sent)

\* C4 as amended: variants are submitted in list order and submission stops at
\* the first response with status 200 and a well-formed body; a 200 whose body
\* is not JSON or lacks choices[0].message.content counts as a failed attempt
\* and the next variant is submitted.
C4_StopsAtFirstWellFormed200 ==
    ClientRunning =>
        /\ \A k \in 1..Len(sent) : sent[k].json = payloads_to_try[k]
        /\ Len(received) = Len(sent)
        /\ \A k \in 1..Len(received) :
              /\ received[k] \in HttpOk => (k = Len(sent) /\ pc = "returned")
              /\ (received[k] \notin HttpOk /\ k < Len(payloads_to_try) /\ k = Len(sent))
                    => (pc = "loop" /\ i = k + 1)

C4_Witness ==
    /\ pc = "returned" /\ Len(payloads_to_try) = 4 /\ Len(sent) = 2
    /\ received[1].status = 200 /\ received[2] \in HttpOk

(***************************************************************************)
(* C5: when the first k variants fail and variant k+1 answers 200 with a   *)
(* well-formed body, the client returns that body's                        *)
(* choices[0].message.content and has recorded exactly k failed attempts,  *)
(* one per failed variant.                                                 *)
(***************************************************************************)
C5_ReturnsFirstSuccess ==
    pc = "returned" =>
        LET k == Len(sent) - 1
        IN  /\ received[k + 1] \in HttpOk
            /\ \A j \in 1..k : received[j] \notin HttpOk
            /\ result.kind = "return"
            /\ result.value = received[k + 1].content
            /\ Len(FailedAttempts) = k
            /\ \A j \in 1..k : FailedAttempts[j].attempt.variant = j

C5_Witness ==
    /\ file = "add" /\ pc = "returned" /\ Len(sent) = 3
    /\ received[1].status = 500 /\ received[2].status = 500
    /\ SchemaOf(sent[3].json) = "C"
    /\ Len(FailedAttempts) = 2

(***************************************************************************)
(* C6: when every variant fails, the failure raised carries one attempt    *)
(* record per variant, in the order the variants were attempted.           *)
(***************************************************************************)
C6_FailureCarriesEveryAttempt ==
    (pc = "raised" /\ ListBuilt /\ \A k \in 1..Len(received) : received[k].status # 200) =>
        /\ Len(AttemptsCarried(result)) = Len(payloads_to_try)
        /\ \A k \in 1..Len(AttemptsCarried(result)) :
              AttemptsCarried(result)[k].variant = k

(***************************************************************************)
(* C7: with a required completion field missing, no user action sends an   *)
(* HTTP request to the completion endpoint.                                *)
(***************************************************************************)
C7_NoRequestWhenInvalid == ~validate_config(config) => sent = << >>

(***************************************************************************)
(* C8: the API version is required: when it is absent validation fails, so *)
(* the completion client is never called without it.                       *)
(***************************************************************************)
C8_ApiVersionRequired == ClientRunning => Truthy(config.azure_api_version)

(***************************************************************************)
(* C9: after a failure on variant i the client goes on to variant i+1      *)
(* without retrying: every variant is submitted at most once and a call    *)
(* issues at most 4 requests.                                              *)
(***************************************************************************)
C9_NoRetry ==
    ClientRunning =>
        /\ Len(sent) <= 4
        /\ \A j, k \in 1..Len(sent) : j # k => sent[j].json # sent[k].json
        /\ \A k \in 1..Len(sent) : sent[k].json = payloads_to_try[k]
        /\ pc = "loop" => i = Len(sent) + 1

C9_Witness ==
    /\ pc = "raised" /\ Len(sent) = 4
    /\ received[1].exc = "Timeout" /\ received[2].status = 500
    /\ received[3].exc = "ConnectionError"

(***************************************************************************)
(* C10: the degraded-mode diagnostic is emitted exactly by a successful    *)
(* call whose succeeding variant is D with a search variant before it in   *)
(* the list; never by a failing call or a call whose list is D alone.      *)
(***************************************************************************)
C10_DegradedOnlyAfterSearch ==
    /\ pc = "returned" =>
          (DegradedEmitted <=>
              /\ SchemaOf(sent[Len(sent)].json) = "D"
              /\ \E k \in 1..(Len(payloads_to_try) - 1) :
                    SchemaOf(payloads_to_try[k]) # "D")
    /\ pc = "raised" => ~DegradedEmitted
    /\ (ListBuilt /\ Schemas(payloads_to_try) = <<"D">>) => ~DegradedEmitted

(***************************************************************************)
(* C11: every request of a call goes to the URL built from the normalised  *)
(* endpoint: the configured value with its trailing slashes stripped and   *)
(* "https://" prepended only when it carries no scheme, so a value that    *)
(* starts with "https://" or "http://" keeps its scheme.                   *)
(***************************************************************************)
C11_UrlFromNormalisedEndpoint ==
    \A k \in 1..Len(sent) :
        LET stripped == rstrip(config.azure_oai_endpoint)
            normalised == IF HasScheme(stripped) THEN stripped
                          ELSE <<"https://">> \o stripped
        IN  sent[k].url = BuildUrl(normalised, config.azure_oai_deployment,
                                   config.azure_api_version)

(***************************************************************************)
(* C12: when record_audio has returned, whatever it acquired is released:  *)
(* the device handle is terminated and the input stream is closed, on the  *)
(* success path, when opening the stream fails and when a read fails.      *)
(***************************************************************************)
C12_DeviceReleasedOnReturn ==
    pc = "recorded" =>
        /\ audio.p # "none" => audio.p = "terminated"
        /\ audio.stream # "none" => audio.stream = "closed"

C14_NoSynthesisWithoutAllFields ==
    (/\ tts # "not_called"
     /\ \/ ~Truthy(config.azure_speech_key)
        \/ ~Truthy(config.azure_speech_region)
        \/ ~Truthy(config.azure_speech_voice))
    => /\ tts = "false"
       /\ ~synth.synthesizer
       /\ synth.request = None

(***************************************************************************)
(* C15: speech synthesis never interrupts the chat: text_to_speech is      *)
(* attempted only when the assistant response of a successful completion   *)
(* is the last message of the history, it ends with True or False, and     *)
(* the history after the attempt is the history before it, whether the     *)
(* synthesis succeeded or failed; the program is then idle again.          *)
(***************************************************************************)
C15_SpeechLeavesHistory ==
    [][ /\ (tts = "not_called" /\ tts' # "not_called") => pc = "speaking"
        /\ pc = "speaking" =>
              /\ messages # << >>
              /\ messages[Len(messages)].role = "assistant"
              /\ messages[Len(messages)].content.kind = "response"
              /\ tts' \in {"true", "false"}
              /\ messages' = messages
              /\ pc' = "idle" ]_vars

C15_Witness ==
    /\ pc = "idle"
    /\ tts = "false"
    /\ synth.synthesizer
    /\ messages # << >>
    /\ messages[Len(messages)].content.kind = "response"

\* every query of the history has its one answer; the running query has none yet
OneResultEach ==
    LET n == Len(messages)
        answered == IF ClientRunning THEN n - 1 ELSE n
    IN  /\ answered % 2 = 0
        /\ \A k \in 1..answered :
              messages[k].role = IF k % 2 = 1 THEN "user" ELSE "assistant"
        /\ ClientRunning => messages[n] = UserMessage(query)

(***************************************************************************)
(* C16: no outcome of the completion client is fatal. Whether the client   *)
(* returned a response or raised (every variant failed, invalid endpoint,  *)
(* any other exception), process_query appends exactly one assistant       *)
(* message for the query, the response text or one error text carrying     *)
(* the failure, and ends the action without another request; a client      *)
(* call starts only with a new user message.                               *)
(***************************************************************************)
C16_OneResultNoRetry ==
    /\ OneResultEach
    /\ [][ /\ OneResultEach'
           /\ pc \in {"returned", "raised"} =>
                 /\ Len(messages') = Len(messages) + 1
                 /\ SubSeq(messages', 1, Len(messages)) = messages
                 /\ LET m == messages'[Len(messages')]
                    IN  /\ m.role = "assistant"
                        /\ result.kind = "return" =>
                              m.content.kind = "response" /\ m.content.text = result.value
                        /\ result.kind # "return" =>
                              m.content.kind = "error" /\ m.content.error = result
                 /\ pc' \in {"idle", "speaking"}
                 /\ sent' = << >>
           /\ (pc # "loop" /\ pc' = "loop") =>
                 messages' = Append(messages, UserMessage(query')) ]_vars

C16_Witness ==
    /\ pc = "idle"
    /\ Len(messages) = 2
    /\ messages[2].content.kind = "error"
    /\ messages[2].content.error = InvalidEndpoint

(***************************************************************************)
(* C17: with a configuration that passes validate_config and lacks a       *)
(* search field, process_query gives the query to the client, whose        *)
(* requests carry variant D, and a query answered with a response is       *)
(* answered with the content extracted from the endpoint's 200 answer.     *)
(***************************************************************************)
C17_WithoutSearchAnswersFromD ==
    (validate_config(config) /\ ~SearchConfigured) =>
        /\ ClientRunning => \A k \in 1..Len(sent) : SchemaOf(sent[k].json) = "D"
        /\ \A k \in 1..Len(messages) :
              (messages[k].role = "assistant" /\ messages[k].content.kind = "response")
                  => messages[k].content.text \in Contents

(***************************************************************************)
(* C18: a recording of d seconds that succeeds has read exactly            *)
(* floor(44100 * d / 1024) chunks of 1024 frames and written them as       *)
(* mono, 16-bit, 44100 Hz audio, so the frames captured fall short of      *)
(* 44100 * d by less than one chunk; d = 5 reads 215 chunks.               *)
(***************************************************************************)
C18_ChunksForDuration ==
    (pc = "recorded" /\ audio.path # None) =>
        LET d == audio.duration
            c == audio.chunks
        IN  /\ d >= 1
            /\ c * 1024 <= 44100 * d
            /\ 44100 * d < (c + 1) * 1024
            /\ audio.wav = [nchannels |-> 1, sampwidth |-> 2, framerate |-> 44100,
                            nframes |-> c * 1024]
            /\ 44100 * d - audio.wav.nframes < 1024
            /\ audio.wav.nframes <= 44100 * d
            /\ d = 5 => c = 215

C18_Witness ==
    /\ pc = "recorded"
    /\ audio.path = TempFile
    /\ audio.duration = 5
    /\ audio.chunks = 215

(***************************************************************************)
(* C19: a response with status 200 whose body is not JSON, or is JSON      *)
(* without choices[0].message.content, is a failed attempt: it is logged   *)
(* as one, the next variant of the list is submitted after it, and the     *)
(* call raises the aggregated failure, carrying that attempt, only when    *)
(* the malformed answer was the one to the last variant.                   *)
(***************************************************************************)
C19_Malformed200IsFailedAttempt ==
    ClientRunning =>
        \A k \in 1..Len(received) :
            received[k] \in HttpMalformed =>
                LET n == Len(payloads_to_try)
                    failed == ErrorMsg(file, k, received[k])
                IN  /\ \E j \in 1..Len(FailedAttempts) :
                          /\ FailedAttempts[j].level = "error"
                          /\ FailedAttempts[j].attempt = failed
                    /\ k < n =>
                          \/ pc = "loop" /\ i = k + 1 /\ Len(sent) = k
                          \/ Len(sent) > k /\ sent[k + 1].json = payloads_to_try[k + 1]
                    /\ k = n => pc = "raised" /\ result = AllFailed(failed)
                    /\ (pc = "raised" /\ k = Len(received)) => k = n

C19_Witness ==
    /\ pc = "returned"
    /\ Len(sent) = 3
    /\ received[1].status = 200 /\ ~received[1].json
    /\ received[2].status = 200 /\ received[2].json /\ ~received[2].shape
    /\ received[3] \in HttpOk

(***************************************************************************)
(* C20: after record-and-transcribe, the transcription is given to         *)
(* process_query exactly when the recognizer succeeded with non-empty      *)
(* text: every recognized non-empty text becomes the next user message,    *)
(* and an empty text or a failure placeholder never does.                  *)
(***************************************************************************)
C20_ForwardedIffRecognized ==
    [][ pc = "transcribed" =>
          ( (/\ Len(messages') > Len(messages)
             /\ messages'[Len(messages) + 1] = UserMessage(transcription.text))
            <=> (transcription.outcome = "text" /\ transcription.recognized # << >>) ) ]_vars

\* messages is the start of later, entry for entry
IsPrefix(earlier, later) ==
    /\ Len(earlier) <= Len(later)
    /\ SubSeq(later, 1, Len(earlier)) = earlier

\* user, assistant, user, assistant ...; a user message holds a query, an
\* assistant message a response or an error text
Alternates(history) ==
    \A k \in 1..Len(history) :
        IF k % 2 = 1
        THEN /\ history[k].role = "user"
             /\ history[k].content.kind = "query"
             /\ history[k].content.text \in Queries
        ELSE /\ history[k].role = "assistant"
             /\ history[k].content.kind \in {"response", "error"}

(***************************************************************************)
(* C21: over any sequence of process_query calls from an empty history     *)
(* the history alternates user, assistant, user, assistant; a call appends *)
(* one user message holding its query, then one assistant message, and     *)
(* leaves every earlier entry as it was; between calls the history has an  *)
(* answer for every query.                                                 *)
(***************************************************************************)
C21_HistoryAlternates ==
    /\ messages = << >>
    /\ [][ /\ IsPrefix(messages, messages')
           /\ Alternates(messages')
           /\ pc' \in {"idle", "speaking"} => Len(messages') % 2 = 0
           /\ pc' \in {"loop", "returned", "raised"} =>
                 /\ Len(messages') % 2 = 1
                 /\ messages'[Len(messages')] = UserMessage(query')
           /\ pc = "idle" /\ messages' # messages =>
                 /\ Len(messages') >= Len(messages) + 1
                 /\ Len(messages') <= Len(messages) + 2
                 /\ \E q \in Queries : messages'[Len(messages) + 1] = UserMessage(q)
           /\ pc \in {"returned", "raised"} => Len(messages') = Len(messages) + 1
           /\ pc \in {"loop", "speaking"} => messages' = messages ]_vars

C21_Witness ==
    /\ pc = "idle"
    /\ Len(messages) = 4
    /\ messages[2].content.kind = "error"
    /\ messages[3] = UserMessage(<<"q2">>)
    /\ messages[4].content.kind = "response"

(***************************************************************************)
(* C22: when the record action hands control back (to the user interface   *)
(* or on to process_query), the temporary audio file record_audio created  *)
(* is no longer on disk: after a transcription that succeeded, after one   *)
(* that returned a placeholder, and after a recording that failed once     *)
(* the file had been created.                                              *)
(***************************************************************************)
C22_TempFileDeleted ==
    [][ (pc \in {"recorded", "transcribed"} /\ pc' \notin {"recorded", "transcribed"})
            => audio.file # "exists" ]_vars

(***************************************************************************)
(* C23: the recording flag is true only while record_audio runs: once a    *)
(* record action has finished, with a file or without, the flag is false,  *)
(* so whenever the program waits for the user the flag does not block      *)
(* Start Recording.                                                        *)
(***************************************************************************)
C23_FlagTrueOnlyWhileRecording ==
    /\ recording = "true" => pc = "recording"
    /\ pc \in {"recorded", "transcribed"} => recording = "false"
    /\ pc = "idle" => recording \in {"absent", "false"}

C23_Witness ==
    /\ pc = "recorded"
    /\ audio.path = None
    /\ audio.stream = "open"
    /\ recording = "false"

====
